---- MODULE Spec2Model ----
(***************************************************************************)
(* A model of the calendar agent's tool functions in src/main.py:          *)
(* parse_duration, parsed_recurrence, natural_language_datetime_parser     *)
(* and meeting_time_suggestions.                                           *)
(*                                                                         *)
(* The program is single-threaded request/response: the agent invokes one  *)
(* tool, the tool runs to its return or to the exception it raises, and    *)
(* only then is the next tool invoked.  The state is therefore the last    *)
(* invocation: which tool (op), its arguments (args), the local variables  *)
(* the body had bound when it stopped (locals) and how it stopped          *)
(* (outcome: a return value or a raised exception).                        *)
(*                                                                         *)
(* Texts are sequences of whitespace-separated words.  Python values that  *)
(* the code confuses are kept apart: a str, an int, a datetime and a       *)
(* timedelta are different values, an attribute or a name that does not    *)
(* exist raises, and a keyword a method does not take raises.              *)
(* Library calls (dateparser.parse, dateutil's parse, the clock, the       *)
(* local zone, the free/busy query) are inputs chosen by the environment.  *)
(***************************************************************************)
EXTENDS Integers, Sequences, FiniteSets, TLC

VARIABLES op, args, locals, outcome

vars == <<op, args, locals, outcome>>

(***************************************************************************)
(* Bounds of the model.                                                    *)
(***************************************************************************)
\* the largest number written in a duration text
MaxN == 3
\* the largest count written in a recurrence text
MaxCount == 5
\* the latest day (counted from the Monday the clock starts at) a date parse answers
MaxDay == 2
\* the most busy intervals the free/busy query answers
MaxBusy == 2
\* the largest max_suggestions asked for
MaxSuggestions == 2

(***************************************************************************)
(* Python values.                                                          *)
(***************************************************************************)
\* Optional[T]: None is the empty sequence, a value x is <<x>>.
None == <<>>

Some(x) == <<x>>

IsNone(o) == Len(o) = 0

\* how a call stops
Return(v) == [kind |-> "return", value |-> v]

Raise(exc, fmt, arg) == [kind |-> "raise", exc |-> exc, fmt |-> fmt, arg |-> arg]

\* str.lower() on the words of the vocabulary that are not lower case already
Lower(w) ==
    CASE w = "FOR" -> "for"
      [] w = "Hours" -> "hours"
      [] w = "Minutes" -> "minutes"
      [] w = "Every" -> "every"
      [] w = "Next" -> "next"
      [] w = "Monday" -> "monday"
      [] w = "Tuesday" -> "tuesday"
      [] w = "Saturday" -> "saturday"
      [] w = "Weeks" -> "weeks"
      [] w = "Morning" -> "morning"
      [] w = "Afternoon" -> "afternoon"
      [] w = "AT" -> "at"
      [] OTHER -> w

\* the decimal numerals of the vocabulary: what \d+ matches
Numerals == {ToString(n) : n \in 0..99}

\* int(s) for a decimal numeral s
Int_(s) == CHOOSE n \in 0..99 : ToString(n) = s

(***************************************************************************)
(* parse_duration, src/main.py:226-244                                     *)
(***************************************************************************)
\* the alternation (hour|hours|minute|minutes), IGNORECASE, matched at the
\* start of word w: the first alternative that matches, or "" when none does
DurationUnit(w) ==
    CASE Lower(w) \in {"hour", "hours", "hourly"} -> "hour"
      [] Lower(w) \in {"minute", "minutes"} -> "minute"
      [] OTHER -> ""

\* re.match(r'(?:for\s+)?(\d+)\s*(hour|hours|minute|minutes)', duration, re.IGNORECASE):
\* None, or <<[value, unit]>> with the two groups as matched
duration_match(duration) ==
    LET skip == IF Len(duration) >= 1 /\ Lower(duration[1]) = "for" THEN 1 ELSE 0
    IN  IF /\ Len(duration) >= skip + 2
           /\ duration[skip + 1] \in Numerals
           /\ DurationUnit(duration[skip + 2]) # ""
        THEN Some([value |-> duration[skip + 1], unit |-> DurationUnit(duration[skip + 2])])
        ELSE None

\* value = value.int(): value is the str the group matched, and str has no
\* attribute int, so the statement raises AttributeError
StrDotInt(value) == Raise("AttributeError", "'str' object has no attribute 'int'", <<>>)

parse_duration(duration) ==
    LET m == duration_match(duration)
    IN  IF ~IsNone(m)
        THEN StrDotInt(m[1].value)
        ELSE Raise("ValueError", "Could not parse duration string: ", duration)

(***************************************************************************)
(* parsed_recurrence, src/main.py:277-312                                  *)
(***************************************************************************)
\* the dict freq_match with its keys as written; "" stands for a missing key
freq_match(key) ==
    CASE key = "daily" -> "DAILY"
      [] key = "weekly" -> "WEEKLY"
      [] key = "monthly" -> "MONTHLY"
      [] key = "yearly" -> "YEARLY"
      [] key = "monday" -> "WEEKLY;BYDAY=MO"
      [] key = "tuesday" -> "WEEKLY;BYDAY=Tu"
      [] key = "wednesday" -> "WEEKLY;BYDAY=WE"
      [] key = "thursday" -> "WEEKLY;BYDAY=TH"
      [] key = "friday" -> "WEEKLY;BYDAY=FR"
      [] key = "satday" -> "WEEKLY;BYDAY=SA"
      [] key = "sunday" -> "WEEKLY;BYDAY=SU"
      [] OTHER -> ""

\* freq_match.get(dayorfreq, 'WEEKLY')
freq_get(dayorfreq) ==
    IF freq_match(dayorfreq) # "" THEN freq_match(dayorfreq) ELSE "WEEKLY"

\* the alternation (week|month|year) matched at the start of word w, upper-cased
RecurrenceUnit(w) ==
    CASE Lower(w) \in {"week", "weeks"} -> "WEEK"
      [] Lower(w) \in {"month", "months"} -> "MONTH"
      [] Lower(w) \in {"year", "years"} -> "YEAR"
      [] OTHER -> ""

\* re.match(r'every\s+(\w+)\s*(for\s+(\d+)\s*(week|month|year)s?)?', ...):
\* None, or <<[g1, g2, g3, g4]>>; g2 is whether the optional group took part
recurrence_match(s) ==
    IF Len(s) >= 2 /\ Lower(s[1]) = "every"
    THEN LET clause == /\ Len(s) >= 5
                       /\ Lower(s[3]) = "for"
                       /\ s[4] \in Numerals
                       /\ RecurrenceUnit(s[5]) # ""
         IN  Some([g1 |-> s[2], g2 |-> clause,
                   g3 |-> IF clause THEN s[4] ELSE "",
                   g4 |-> IF clause THEN RecurrenceUnit(s[5]) ELSE ""])
    ELSE None
\* (a returned str is the record [str |-> ...], a returned int [int |-> ...])
parsed_recurrence(recurrence_string) ==
    LET m == recurrence_match(recurrence_string)
    IN  IF ~IsNone(m)
        THEN LET dayorfreq == Lower(m[1].g1)
                 rrule == "RRULE:FREQ=" \o freq_get(dayorfreq)
                 count == m[1].g3
                 unit == m[1].g4
             IN  Return([str |->
                        IF m[1].g2
                        THEN CASE unit = "WEEK" -> rrule \o ";COUNT=" \o count
                               [] unit = "MONTH" -> rrule \o ";COUNT=" \o ToString(Int_(count) * 4)
                               [] unit = "YEAR" -> rrule \o ";COUNT=" \o ToString(Int_(count) * 52)
                               [] OTHER -> rrule
                        ELSE rrule])
        ELSE Raise("ValueError", "couldn't parse recurrence string: ", recurrence_string)

(***************************************************************************)
(* datetime values.  An aware datetime is its wall-clock reading t (minutes *)
(* since a Monday 00:00), its second and microsecond, and the UTC offset   *)
(* off (minutes) of its zone; zones are fixed offsets.  A naive datetime   *)
(* has no off field.                                                       *)
(***************************************************************************)
MinutesPerDay == 1440

Aware(t, s, us, off) == [t |-> t, s |-> s, us |-> us, off |-> off]

\* datetime.astimezone(zone)
astimezone(dt, off) == [dt EXCEPT !.t = dt.t - dt.off + off, !.off = off]

\* pytz's zone.localize(naive): the same wall-clock reading, in the zone
localize(naive, off) == Aware(naive.t, naive.s, naive.us, off)

\* (a slip of the sign: the timedelta is taken off)
PlusMinutesSubtracts(dt, m) == [dt EXCEPT !.t = dt.t - m]

\* datetime + datetime.timedelta(minutes = m)
PlusMinutes(dt, m) == [dt EXCEPT !.t = dt.t + m]

\* datetime.weekday(): Monday is 0
weekday(dt) == (dt.t \div MinutesPerDay) % 7

\* the UTC offset as isoformat() writes it
OffsetText(off) ==
    CASE off = 0 -> "+00:00"
      [] off = 330 -> "+05:30"
      [] off = -300 -> "-05:00"
      [] OTHER -> "+??:??"

\* datetime.isoformat(): a str, the wall-clock reading followed by the offset
isoformat(dt) == [type |-> "str", t |-> dt.t, s |-> dt.s, us |-> dt.us, suffix |-> OffsetText(dt.off)]

\* str.replace('+00:00', 'Z') on an isoformat() string
ReplaceUtcOffsetByZ(str) == IF str.suffix = "+00:00" THEN [str EXCEPT !.suffix = "Z"] ELSE str

\* a datetime object handed on as it is
DatetimeObject(dt) == [type |-> "datetime", t |-> dt.t, s |-> dt.s, us |-> dt.us, off |-> dt.off]

\* the keywords datetime.replace() takes
ReplaceKeywords ==
    {"year", "month", "day", "hour", "minute", "second", "microsecond", "tzinfo", "fold"}

\* datetime.replace(**kw) for the time-of-day keywords; any other keyword is a TypeError
replace(dt, kw) ==
    IF DOMAIN kw \subseteq ReplaceKeywords
    THEN Return([dt EXCEPT
            !.t = (dt.t \div MinutesPerDay) * MinutesPerDay
                  + (IF "hour" \in DOMAIN kw THEN kw.hour * 60 ELSE ((dt.t % MinutesPerDay) \div 60) * 60)
                  + (IF "minute" \in DOMAIN kw THEN kw.minute ELSE dt.t % 60),
            !.s = IF "second" \in DOMAIN kw THEN kw.second ELSE dt.s,
            !.us = IF "microsecond" \in DOMAIN kw THEN kw.microsecond ELSE dt.us])
    ELSE Raise("TypeError", "invalid keyword argument for replace()", <<>>)

(***************************************************************************)
(* natural_language_datetime_parser, src/main.py:100-224                   *)
(***************************************************************************)
\* time_ranges: the window of a period word, as minutes of the day
time_ranges(period) ==
    CASE period = "morning" -> <<9 * 60, 12 * 60>>
      [] period = "afternoon" -> <<12 * 60, 17 * 60>>
      [] period = "evening" -> <<17 * 60, 21 * 60>>
      [] OTHER -> <<>>

\* re.match(r'(\d+\s*(?:AM|PM|am|pm))\s*to\s*(\d+\s*(?:AM|PM|am|pm))', prefered_time, re.IGNORECASE)
prefered_match(p) ==
    /\ Len(p) >= 5
    /\ p[1] \in Numerals /\ Lower(p[2]) \in {"am", "pm", "AM", "PM"}
    /\ Lower(p[3]) = "to"
    /\ p[4] \in Numerals /\ Lower(p[5]) \in {"am", "pm", "AM", "PM"}

\* dateutil_parser.parser(start_str).time(): parser is dateutil's parser class,
\* the call builds a parser object, and that object has no attribute time
ParserObjectTime(start_str) ==
    Raise("AttributeError", "'parser' object has no attribute 'time'", <<>>)

\* lines 123-141: the outcome is a return of time_frame (None or <<lo, hi>>) or a raise
prefered_time_frame(prefered_time) ==
    IF IsNone(prefered_time) \/ Len(prefered_time[1]) = 0
    THEN Return(None)
    ELSE LET p == prefered_time[1]
         IN  IF Len(p) = 1 /\ Lower(p[1]) \in {"morning", "afternoon", "evening"}
             THEN Return(Some(time_ranges(Lower(p[1]))))
             ELSE IF prefered_match(p)
                  THEN ParserObjectTime(<<p[1], p[2]>>)
                  ELSE Return(None)

\* [a-zA-Z]+ matching the whole word
Alphabetic(w) ==
    w \notin Numerals \cup {"10am", "3:30pm", "9:00", "13:00", "18:00", "2026"}

PeriodWords == {"morning", "afternoon", "evening"}

\* re.match(r'next\s+([a-zA-Z]+)(?:\s+at\s+(.+?))?(?:\s+(morning|afternoon|evening))?$',
\*          datetime_str, re.IGNORECASE):
\* None, or <<[day_name, time_part, period]>>; time_part is None or the words the
\* lazy group took, period is None or the word matched
next_match(s) ==
    IF Len(s) >= 2 /\ Lower(s[1]) = "next" /\ Alphabetic(s[2])
    THEN LET rest == SubSeq(s, 3, Len(s))
             n == Len(rest)
         IN  CASE n = 0 ->
                    Some([day_name |-> s[2], time_part |-> None, period |-> None])
               [] n = 1 /\ Lower(rest[1]) \in PeriodWords ->
                    Some([day_name |-> s[2], time_part |-> None, period |-> Some(rest[1])])
               [] n >= 3 /\ Lower(rest[1]) = "at" /\ Lower(rest[n]) \in PeriodWords ->
                    Some([day_name |-> s[2], time_part |-> Some(SubSeq(rest, 2, n - 1)),
                          period |-> Some(rest[n])])
               [] n >= 2 /\ Lower(rest[1]) = "at" /\ ~(n >= 3 /\ Lower(rest[n]) \in PeriodWords) ->
                    Some([day_name |-> s[2], time_part |-> Some(SubSeq(rest, 2, n)),
                          period |-> None])
               [] OTHER -> None
    ELSE None

\* daymap; -1 stands for a missing key
daymap(day) ==
    CASE day = "monday" -> 0
      [] day = "tuesday" -> 1
      [] day = "wednesday" -> 2
      [] day = "thursday" -> 3
      [] day = "friday" -> 4
      [] day = "saturday" -> 5
      [] day = "sunday" -> 6
      [] OTHER -> -1

\* (a slip: the "or 7" left out)
days_ahead_may_be_today(target_weekday, current_weekday) ==
    (target_weekday - current_weekday + 7) % 7

\* days_ahead = (target_weekday - current_weekday + 7) % 7 or 7
days_ahead(target_weekday, current_weekday) ==
    LET d == (target_weekday - current_weekday + 7) % 7
    IN  IF d # 0 THEN d ELSE 7

\* period_map.get(period.lower(), 9)
period_map(period) ==
    CASE period = "morning" -> 9
      [] period = "afternoon" -> 13
      [] period = "evening" -> 18
      [] OTHER -> 9

\* dateutil_parser.parse(time_part, fuzzy=True) on the time words of the
\* vocabulary: <<[hour, minute]>>, or None when dateutil raises ValueError
parse_time_part(time_part) ==
    IF Len(time_part) # 1 THEN None
    ELSE CASE time_part[1] = "10am" -> Some([hour |-> 10, minute |-> 0])
           [] time_part[1] = "3:30pm" -> Some([hour |-> 15, minute |-> 30])
           [] time_part[1] = "9:00" -> Some([hour |-> 9, minute |-> 0])
           [] time_part[1] = "13:00" -> Some([hour |-> 13, minute |-> 0])
           [] time_part[1] = "18:00" -> Some([hour |-> 18, minute |-> 0])
           [] OTHER -> None

\* lines 169-199: the time of day put on target_date; a return of the datetime or a raise
next_weekday_time(target_date, time_part0, period) ==
    LET default_hour == IF IsNone(period) THEN 9 ELSE period_map(Lower(period[1]))
        time_part == IF ~IsNone(period) /\ IsNone(time_part0)
                     THEN Some(<<ToString(default_hour) \o ":00">>)
                     ELSE time_part0
    IN  IF ~IsNone(time_part)
        THEN LET time_parsed == parse_time_part(time_part[1])
             IN  IF IsNone(time_parsed)
                 THEN Raise("ValueError", "Could not parse time_part ", time_part[1])
                 ELSE replace(target_date,
                              [hours |-> time_parsed[1].hour, minute |-> time_parsed[1].minute,
                               second |-> 0, microsecond |-> 0])
        ELSE replace(target_date,
                     [hours |-> default_hour, minute |-> 0, second |-> 0, microsecond |-> 0])

\* parsed_duration(duration), line 219: the module defines parse_duration and
\* parsed_recurrence and no parsed_duration, so the name lookup raises NameError
parsed_duration(duration) ==
    Raise("NameError", "name 'parsed_duration' is not defined", <<>>)

\* the event length used when no duration is given: timedelta(hours = 1)
DefaultHours == 1

\* lines 215-224: from the datetime a strategy produced to the returned triple
finish(parsed_datetime0, duration, time_frame) ==
    LET parsed_datetime == astimezone(parsed_datetime0, 0)
        start_time == ReplaceUtcOffsetByZ(isoformat(parsed_datetime))
    IN  IF ~IsNone(duration) /\ Len(duration[1]) > 0
        THEN LET duration_minutes == parsed_duration(duration[1])
             IN  IF duration_minutes.kind = "raise"
                 THEN duration_minutes
                 ELSE Return([start_time |-> start_time,
                              end_time |-> DatetimeObject(
                                  PlusMinutes(parsed_datetime, duration_minutes.value.int)),
                              time_frame |-> time_frame])
        ELSE Return([start_time |-> start_time,
                     end_time |-> ReplaceUtcOffsetByZ(isoformat(
                                      PlusMinutes(parsed_datetime, DefaultHours * 60))),
                     time_frame |-> time_frame])

\* what the body had bound when it stopped
\* (produced is parsed_datetime as the strategies left it, before line 215)
NldpLocals(strategy, tf, fb, fuzzy, produced) ==
    [reached |-> strategy, time_frame |-> tf, fallback |-> fb, fuzzy_attempted |-> fuzzy,
     produced |-> produced]

\* The whole function.  env is what the environment answers: tz the zone of
\* get_user_timezone(), dp what dateparser.parse returns (None or <<datetime>>),
\* now the clock, fz what dateutil's fuzzy parse returns (None when it raises
\* ValueError, else <<naive datetime>>).  The result is [outcome, locals].
natural_language_datetime_parser(datetime_str, duration, prefered_time, env) ==
    LET tf == prefered_time_frame(prefered_time)
    IN  IF tf.kind = "raise"
        THEN [outcome |-> tf, locals |-> NldpLocals("prefered_time", None, None, FALSE, None)]
        ELSE
        LET time_frame == tf.value
            match == IF IsNone(env.dp) THEN next_match(datetime_str) ELSE None
        IN  IF ~IsNone(env.dp)
            THEN [outcome |-> finish(env.dp[1], duration, time_frame),
                  locals |-> NldpLocals("general", time_frame, None, FALSE, env.dp)]
            ELSE IF ~IsNone(match)
            THEN LET day_name == match[1].day_name
                 IN  IF daymap(Lower(day_name)) = -1
                     THEN [outcome |-> Raise("ValueError", "Invalid day name: ", <<day_name>>),
                           locals |-> NldpLocals("next", time_frame, None, FALSE, None)]
                     ELSE
                     LET target_weekday == daymap(Lower(day_name))
                         current_date == env.now
                         current_weekday == weekday(current_date)
                         ahead == days_ahead(target_weekday, current_weekday)
                         target_date == PlusMinutes(current_date, ahead * MinutesPerDay)
                         made == next_weekday_time(target_date, match[1].time_part, match[1].period)
                         fb == Some([target_weekday |-> target_weekday,
                                     current_date |-> current_date,
                                     days_ahead |-> ahead,
                                     target_date |-> target_date,
                                     time_part |-> match[1].time_part,
                                     period |-> match[1].period])
                     IN  IF made.kind = "raise"
                         THEN [outcome |-> made,
                               locals |-> NldpLocals("next", time_frame, fb, FALSE, None)]
                         ELSE [outcome |-> finish(made.value, duration, time_frame),
                               locals |-> NldpLocals("next", time_frame, fb, FALSE,
                                                     Some(made.value))]
            ELSE IF IsNone(env.fz)
                 THEN [outcome |-> Raise("ValueError", "Could not parse datetime string ",
                                         datetime_str),
                       locals |-> NldpLocals("fuzzy", time_frame, None, TRUE, None)]
                 ELSE [outcome |-> finish(localize(env.fz[1], env.tz), duration, time_frame),
                       locals |-> NldpLocals("fuzzy", time_frame, None, TRUE,
                                             Some(localize(env.fz[1], env.tz)))]

(***************************************************************************)
(* meeting_time_suggestions, src/main.py:380-463                           *)
(***************************************************************************)
\* datetime.timedelta(minutes = m): a duration, not a point in time
timedelta(m) == [minutes |-> m]

\* the instant of an aware datetime, in minutes of UTC
Instant(dt) == dt.t - dt.off

\* a <= b in Python: two datetimes compare by instant, two timedeltas by length,
\* and a timedelta against a datetime is a TypeError
le(a, b) ==
    IF DOMAIN a # DOMAIN b
    THEN Raise("TypeError", "'<=' not supported between instances", <<>>)
    ELSE IF "minutes" \in DOMAIN a
         THEN Return(a.minutes <= b.minutes)
         ELSE Return(Instant(a) <= Instant(b))

\* lines 446-450: the for loop over busy_slots from entry i on; a return of
\* is_free, or the raise of the comparison
RECURSIVE is_free(_, _, _, _)
is_free(free_end, current_time, busy_slots, i) ==
    IF i > Len(busy_slots)
    THEN Return(TRUE)
    ELSE LET busy_start == busy_slots[i][1]
             busy_end == busy_slots[i][2]
             before == le(free_end, busy_start)
         IN  IF before.kind = "raise"
             THEN before
             ELSE IF ~(before.value \/ le(busy_end, current_time).value)
                  THEN Return(FALSE)
                  ELSE is_free(free_end, current_time, busy_slots, i + 1)

\* the window test left out: every candidate passes
in_time_frame_ignored(time_frame, current_time) == TRUE

\* time_frame[0] <= current_time.time() <= time_frame[1]
in_time_frame(time_frame, current_time) ==
    /\ time_frame[1][1] <= current_time.t % MinutesPerDay
    /\ current_time.t % MinutesPerDay <= time_frame[1][2]

\* free_slots[:max_suggestions] with their ends, lines 459-462
RECURSIVE formatted_slots(_, _, _)
formatted_slots(free_slots, max_suggestions, duration_minutes) ==
    IF Len(free_slots) = 0 \/ max_suggestions <= 0
    THEN <<>>
    ELSE <<[start |-> free_slots[1], end |-> PlusMinutes(free_slots[1], duration_minutes)]>>
         \o formatted_slots(Tail(free_slots), max_suggestions - 1, duration_minutes)

\* what the search hands back: the "No available slots" message, a list of
\* slots, or None when the function falls off its end
NoSlotsMessage == [message |-> TRUE, none |-> FALSE, slots |-> <<>>]

SlotList(slots) == [message |-> FALSE, none |-> FALSE, slots |-> slots]

FallsOffEnd == [message |-> FALSE, none |-> TRUE, slots |-> <<>>]

\* lines 441-463.  The statements from "if not free_slots" to "return
\* formatted_slots" are indented into the while body, so the body runs at most
\* once and the loop never reaches a second candidate.
find_free_slots(day_start, day_end, duration_minutes, busy_slots, time_frame, max_suggestions) ==
    LET current_time == day_start
    IN  IF Instant(PlusMinutes(current_time, duration_minutes)) <= Instant(day_end)
        THEN LET free_end == timedelta(duration_minutes)
                 free == is_free(free_end, current_time, busy_slots, 1)
             IN  IF free.kind = "raise"
                 THEN free
                 ELSE LET free_slots ==
                              IF free.value /\ (IsNone(time_frame) \/ in_time_frame(time_frame, current_time))
                              THEN <<current_time>>
                              ELSE <<>>
                      IN  IF Len(free_slots) = 0
                          THEN Return(NoSlotsMessage)
                          ELSE Return(SlotList(formatted_slots(free_slots, max_suggestions,
                                                               duration_minutes)))
        ELSE Return(FallsOffEnd)

\* re.match(pattern, None) at line 239, when duration is None
MatchOnNone == Raise("TypeError", "expected string or bytes-like object", <<>>)

\* datetime.fromisoformat(start_time.replace('Z', '+00:00')): the aware datetime
\* the string writes
fromisoformat(str) ==
    Aware(str.t, str.s, str.us,
          CASE str.suffix \in {"Z", "+00:00"} -> 0
            [] str.suffix = "+05:30" -> 330
            [] str.suffix = "-05:00" -> -300
            [] OTHER -> 0)

\* lines 422-426: the body of the free/busy query
freebusy_body(day_start, day_end) ==
    [minTime |-> isoformat(astimezone(day_start, 0)),
     maxTime |-> isoformat(astimezone(day_end, 0))]

\* The whole function.  env is the environment of natural_language_datetime_parser
\* with busy, the busy intervals the free/busy query answers.  The result is
\* [outcome, stage, body]: stage names the statement the function had reached,
\* body is the free/busy query it sent, if it got that far.
meeting_time_suggestions(datetime_str, duration, prefered_time, max_suggestions, env) ==
    LET parsed == natural_language_datetime_parser(datetime_str, duration, prefered_time, env).outcome
    IN  IF parsed.kind = "raise"
        THEN [outcome |-> parsed, stage |-> "natural_language_datetime_parser", body |-> None]
        ELSE
        LET parsed_date == astimezone(fromisoformat(parsed.value.start_time), env.tz)
            day_start == replace(parsed_date,
                                 [hour |-> 0, minute |-> 0, second |-> 0, microsecond |-> 0]).value
            day_end == PlusMinutes(day_start, MinutesPerDay)
            duration_minutes == IF IsNone(duration) THEN MatchOnNone ELSE parse_duration(duration[1])
        IN  IF duration_minutes.kind = "raise"
            THEN [outcome |-> duration_minutes, stage |-> "parse_duration", body |-> None]
            ELSE [outcome |-> find_free_slots(day_start, day_end, duration_minutes.value.int,
                                              env.busy, parsed.value.time_frame, max_suggestions),
                  stage |-> "find free slots",
                  body |-> Some(freebusy_body(day_start, day_end))]

(***************************************************************************)
(* update_event, src/main.py:322-364                                       *)
(***************************************************************************)
\* the parameters that become fields of the patch body, in the order of lines 337-350
UpdateFields ==
    {"summary", "start_time", "end_time", "location", "description", "recurrence", "attendees"}

\* a keyword the caller passes, and one the caller leaves out
Passed(v) == [passed |-> TRUE, value |-> v]

Omitted == [passed |-> FALSE, value |-> None]

\* the default of a parameter (lines 323-332); summary, start_time and end_time
\* have none and are always passed
default(field) ==
    IF field \in {"location", "description"} THEN Some("") ELSE None

\* the value a parameter is bound to by the call
bound(call, field) ==
    IF call[field].passed THEN call[field].value ELSE default(field)

\* lines 335-350: a key for every parameter that is not None; the key end_time
\* is assigned summary (line 342)
update_event_body(call) ==
    [field \in {f \in UpdateFields : ~IsNone(bound(call, f))} |->
        IF field = "end_time" THEN bound(call, "summary") ELSE bound(call, field)]

\* lines 352-364.  patched is the calendar service's answer to the patch call;
\* a failure of the service meets "except HttpError", a name the module does
\* not bind (it imports Httperror), which is a NameError.
update_event(call, patched) ==
    LET body == update_event_body(call)
    IN  IF DOMAIN body = {}
        THEN [outcome |-> Raise("ValueError", "Details not provided to update the event", <<>>),
              locals |-> [reached |-> "no details", body |-> body]]
        ELSE [outcome |-> IF patched
                          THEN Return([str |-> "Event updated"])
                          ELSE Raise("NameError", "name 'HttpError' is not defined", <<>>),
              locals |-> [reached |-> "patch", body |-> body]]

(***************************************************************************)
(* search_events and list_events, src/main.py:52-98                        *)
(***************************************************************************)
\* the keys of params that are always set (lines 60-65) and one that is set
\* when its argument is truthy (lines 66-71)
search_params(query, min_time, max_time, max_results) ==
    [key \in {"calendarId", "maxResults", "SingleEvents", "orderBy"}
              \cup (IF ~IsNone(query) /\ query[1] # "" THEN {"q"} ELSE {})
              \cup (IF ~IsNone(min_time) THEN {"timeMin"} ELSE {})
              \cup (IF ~IsNone(max_time) THEN {"timeMax"} ELSE {}) |->
        CASE key = "calendarId" -> [str |-> "primary"]
          [] key = "maxResults" -> [int |-> max_results]
          [] key = "SingleEvents" -> [bool |-> TRUE]
          [] key = "orderBy" -> [str |-> "startTime"]
          [] key = "q" -> [str |-> query[1]]
          [] key = "timeMin" -> min_time[1]
          [] key = "timeMax" -> max_time[1]]

\* lines 73-94.  listed is the calendar service's answer to events().list
search_events(query, min_time, max_time, max_results, listed) ==
    [params |-> search_params(query, min_time, max_time, max_results),
     outcome |->
        CASE listed = "no events" -> Return([str |-> "No events found."])
          [] listed = "events" -> Return([str |-> "formatted events"])
          [] OTHER -> Raise("ValueError", "Failed to fetch events: ", <<>>)]

\* lines 96-98: now is the reading of datetime.now(tz = pytz.UTC)
list_events(max_results, now, listed) ==
    LET current_time == isoformat(now)
    IN  search_events(None, Some(current_time), None, max_results, listed)

(***************************************************************************)
(* The texts the tools are called with.                                    *)
(***************************************************************************)
DurationTexts ==
    {p \o n \o u :
        p \in {<<>>, <<"for">>, <<"FOR">>, <<"about">>},
        n \in {<<>>} \cup {<<ToString(k)>> : k \in 0..MaxN},
        u \in {<<>>, <<"hour">>, <<"hours">>, <<"Hours">>, <<"minute">>,
               <<"minutes">>, <<"mins">>, <<"hours", "long">>}}

RecurrenceTokens ==
    {"daily", "weekly", "monthly", "yearly", "monday", "tuesday", "wednesday",
     "thursday", "friday", "saturday", "sunday", "Tuesday", "day", "fortnight"}

RecurrenceTexts ==
    {<<>>, <<"every">>} \cup
    {e \o <<t>> \o c :
        e \in {<<"every">>, <<"Every">>, <<"each">>},
        t \in RecurrenceTokens,
        c \in {<<>>, <<"until", "june">>} \cup
              {<<"for", ToString(k), u>> :
                  k \in 1..MaxCount,
                  u \in {"week", "weeks", "Weeks", "month", "months", "year", "years", "days"}}}

\* date texts: "next <word>" for every weekday and for other words, "next
\* <weekday>" with "at <time>" and a period word, and texts of another form
DateTexts ==
    {<<"next", d>> :
        d \in {"monday", "tuesday", "wednesday", "thursday", "friday", "saturday",
               "sunday", "Monday", "week"}}
    \cup {<<"next", d>> \o a \o p :
        d \in {"monday", "friday"},
        a \in {<<>>, <<"at", "10am">>, <<"at", "noonish">>},
        p \in {<<>>, <<"morning">>, <<"afternoon">>, <<"evening">>}}
    \cup {<<"Next", "friday", "AT", "3:30pm">>, <<"next">>, <<"tomorrow">>,
          <<"march", "5", "2026", "3pm">>, <<"whenever">>}

\* the duration argument of natural_language_datetime_parser and of
\* meeting_time_suggestions: None, the empty string, or a text
DurationArgs ==
    {None, Some(<<>>), Some(<<"0", "minutes">>), Some(<<"for", ToString(MaxN), "hours">>)}

PreferedTimes ==
    {None, Some(<<"morning">>), Some(<<"Afternoon">>),
     Some(<<"in", "the", "morning">>), Some(<<"10", "AM", "to", "3", "PM">>)}

\* the zone get_user_timezone() answers: the local zone, or GMT when it cannot be found
UserTimezones == {-300, 0, 330}

\* what dateparser.parse can answer besides None: an aware datetime
DateparserResults(tz) ==
    {Aware(d * MinutesPerDay + 10 * 60, 0, 0, off) : d \in 1..MaxDay, off \in {0, tz}}

\* what dateutil's fuzzy parse can answer when it does not raise: a naive datetime
FuzzyResults ==
    {[t |-> d * MinutesPerDay + 15 * 60, s |-> 0, us |-> 0] : d \in 1..MaxDay}

\* datetime.now(zone): any weekday, in the middle of a minute
Clock(tz) == {Aware(d * MinutesPerDay + 14 * 60 + 25, 30, 5, tz) : d \in 0..6}

\* the environment is asked only what the body gets to ask
AsksClock(datetime_str, prefered_time, dp) ==
    /\ prefered_time_frame(prefered_time).kind = "return"
    /\ IsNone(dp)
    /\ ~IsNone(next_match(datetime_str))
    /\ daymap(Lower(next_match(datetime_str)[1].day_name)) # -1

AsksFuzzy(datetime_str, prefered_time, dp) ==
    /\ prefered_time_frame(prefered_time).kind = "return"
    /\ IsNone(dp)
    /\ IsNone(next_match(datetime_str))

\* a clock reading nobody asked for
Unasked == Aware(0, 0, 0, 0)

\* the slot search is given a day, a duration in minutes, busy intervals in the
\* user's zone, a time window and max_suggestions
SearchDay == Aware(1 * MinutesPerDay, 0, 0, 330)

At(hour, minute) == PlusMinutes(SearchDay, hour * 60 + minute)

BusyIntervals ==
    {<<At(10, 0), At(11, 0)>>, <<At(0, 0), At(0, 30)>>, <<At(9, 30), At(12, 30)>>}

RECURSIVE SeqsUpTo(_, _)
SeqsUpTo(S, n) ==
    IF n = 0 THEN {<<>>}
    ELSE LET shorter == SeqsUpTo(S, n - 1)
         IN  shorter \cup {Append(q, x) : q \in shorter, x \in S}

DurationMinutes == {30, 45, 60, 25 * 60}

TimeFrames == {None} \cup {Some(time_ranges(p)) : p \in PeriodWords}

\* the calls of update_event: the three parameters without default are passed,
\* as a value or as None; the others are passed or left out
UpdateCalls ==
    [summary : {Passed(None), Passed(Some("Standup"))},
     start_time : {Passed(None), Passed(Some("2026-02-23T15:00:00Z"))},
     end_time : {Passed(None), Passed(Some("2026-02-23T16:00:00Z"))},
     location : {Omitted, Passed(None), Passed(Some("Room 1"))},
     description : {Omitted, Passed(None), Passed(Some("weekly sync"))},
     recurrence : {Omitted, Passed(None), Passed(Some("RRULE:FREQ=WEEKLY"))},
     attendees : {Omitted, Passed(None), Passed(Some(<<"bob@example.com">>))}]

\* what the calendar service can answer to a list call
ListAnswers == {"events", "no events", "error"}

\* list_events is called with its default or with a smaller number
MaxResults == {1, 10}

(***************************************************************************)
(* The state machine.                                                      *)
(***************************************************************************)
NoLocals == [reached |-> "none"]

Init ==
    /\ op = "idle"
    /\ args = [text |-> <<>>]
    /\ locals = NoLocals
    /\ outcome = [kind |-> "none"]

\* the agent invokes parse_duration
CallParseDuration ==
    /\ op = "idle"
    /\ \E duration \in DurationTexts :
        /\ op' = "parse_duration"
        /\ args' = [text |-> duration]
        /\ locals' = NoLocals
        /\ outcome' = parse_duration(duration)

\* the agent invokes parsed_recurrence
CallParsedRecurrence ==
    /\ op = "idle"
    /\ \E s \in RecurrenceTexts :
        /\ op' = "parsed_recurrence"
        /\ args' = [text |-> s]
        /\ locals' = NoLocals
        /\ outcome' = parsed_recurrence(s)

\* the agent invokes natural_language_datetime_parser
CallNaturalLanguageDatetimeParser ==
    /\ op = "idle"
    /\ \E datetime_str \in DateTexts, duration \in DurationArgs, prefered_time \in PreferedTimes,
          tz \in UserTimezones :
        \E dp \in {None} \cup {Some(r) : r \in DateparserResults(tz)} :
        \E now \in (IF AsksClock(datetime_str, prefered_time, dp) THEN Clock(tz) ELSE {Unasked}),
           fz \in (IF AsksFuzzy(datetime_str, prefered_time, dp)
                   THEN {None} \cup {Some(r) : r \in FuzzyResults} ELSE {None}) :
            LET r == natural_language_datetime_parser(
                         datetime_str, duration, prefered_time,
                         [tz |-> tz, dp |-> dp, now |-> now, fz |-> fz])
            IN  /\ op' = "natural_language_datetime_parser"
                /\ args' = [text |-> datetime_str, duration |-> duration,
                            prefered_time |-> prefered_time]
                /\ locals' = r.locals
                /\ outcome' = r.outcome

\* the agent invokes meeting_time_suggestions
CallMeetingTimeSuggestions ==
    /\ op = "idle"
    /\ \E datetime_str \in DateTexts, duration \in DurationArgs, prefered_time \in PreferedTimes,
          max_suggestions \in 1..MaxSuggestions,
          tz \in UserTimezones :
        \E dp \in {None} \cup {Some(r) : r \in DateparserResults(tz)} :
        \E now \in (IF AsksClock(datetime_str, prefered_time, dp) THEN Clock(tz) ELSE {Unasked}),
           fz \in (IF AsksFuzzy(datetime_str, prefered_time, dp)
                   THEN {None} \cup {Some(r) : r \in FuzzyResults} ELSE {None}) :
            LET r == meeting_time_suggestions(
                         datetime_str, duration, prefered_time, max_suggestions,
                         [tz |-> tz, dp |-> dp, now |-> now, fz |-> fz, busy |-> <<>>])
            IN  /\ op' = "meeting_time_suggestions"
                /\ args' = [text |-> datetime_str, duration |-> duration,
                            prefered_time |-> prefered_time, max_suggestions |-> max_suggestions]
                /\ locals' = [reached |-> r.stage, body |-> r.body]
                /\ outcome' = r.outcome

\* the slot search of meeting_time_suggestions (lines 441-463) on the values
\* the lines before it bind
FindFreeSlots ==
    /\ op = "idle"
    /\ \E duration_minutes \in DurationMinutes, busy_slots \in SeqsUpTo(BusyIntervals, MaxBusy),
          time_frame \in TimeFrames, max_suggestions \in 1..MaxSuggestions :
        /\ op' = "find_free_slots"
        /\ args' = [day_start |-> SearchDay, day_end |-> PlusMinutes(SearchDay, MinutesPerDay),
                    duration_minutes |-> duration_minutes, busy_slots |-> busy_slots,
                    time_frame |-> time_frame, max_suggestions |-> max_suggestions]
        /\ locals' = NoLocals
        /\ outcome' = find_free_slots(SearchDay, PlusMinutes(SearchDay, MinutesPerDay),
                                      duration_minutes, busy_slots, time_frame, max_suggestions)

\* update_event is called
CallUpdateEvent ==
    /\ op = "idle"
    /\ \E call \in UpdateCalls, patched \in BOOLEAN :
        LET r == update_event(call, patched)
        IN  /\ op' = "update_event"
            /\ args' = call
            /\ locals' = r.locals
            /\ outcome' = r.outcome

\* the agent invokes list_events
CallListEvents ==
    /\ op = "idle"
    /\ \E max_results \in MaxResults, now \in Clock(0), listed \in ListAnswers :
        LET r == list_events(max_results, now, listed)
        IN  /\ op' = "list_events"
            /\ args' = [max_results |-> max_results]
            /\ locals' = [reached |-> "search_events", params |-> r.params]
            /\ outcome' = r.outcome

\* the tool's outcome goes back to the agent, which may invoke the next tool
Done ==
    /\ op # "idle"
    /\ op' = "idle"
    /\ args' = [text |-> <<>>]
    /\ locals' = NoLocals
    /\ outcome' = [kind |-> "none"]

Next ==
    \/ CallParseDuration
    \/ CallParsedRecurrence
    \/ CallNaturalLanguageDatetimeParser
    \/ CallMeetingTimeSuggestions
    \/ FindFreeSlots
    \/ CallUpdateEvent
    \/ CallListEvents
    \/ Done

Spec == Init /\ [][Next]_vars

(***************************************************************************)
(* The claims.                                                             *)
(***************************************************************************)
Falsy(duration) == IsNone(duration) \/ Len(duration[1]) = 0

\* The number of minutes the duration grammar gives text d: an optional "for",
\* a positive integer n and hour(s) or minute(s), n*60 for hours and n for
\* minutes; 0 when d does not start that way.
GrammarMinutes(d) ==
    LET k == IF Len(d) >= 1 /\ Lower(d[1]) = "for" THEN 1 ELSE 0
    IN  IF Len(d) >= k + 2 /\ d[k + 1] \in Numerals
        THEN CASE Lower(d[k + 2]) \in {"hour", "hours"} -> Int_(d[k + 1]) * 60
               [] Lower(d[k + 2]) \in {"minute", "minutes"} -> Int_(d[k + 1])
               [] OTHER -> 0
        ELSE 0

\* d has no number followed by a word that starts with a unit
OutsideGrammar(d) ==
    LET k == IF Len(d) >= 1 /\ Lower(d[1]) = "for" THEN 1 ELSE 0
    IN  ~(Len(d) >= k + 2 /\ d[k + 1] \in Numerals
          /\ Lower(d[k + 2]) \in {"hour", "hours", "hourly", "minute", "minutes"})

\* C1: parse_duration returns n*60 for "<n> hour(s)" and n for "<n> minute(s)",
\* n positive, with or without a leading "for" and in any letter case, and
\* raises the parse error (ValueError) for a text that does not start so.
C1_ParseDurationContract ==
    op = "parse_duration" =>
        /\ GrammarMinutes(args.text) > 0 =>
              outcome.kind = "return" /\ outcome.value.int = GrammarMinutes(args.text)
        /\ OutsideGrammar(args.text) =>
              outcome.kind = "raise" /\ outcome.exc = "ValueError"

\* an ISO string a is an earlier reading than b
StrBefore(a, b) ==
    \/ a.t < b.t
    \/ a.t = b.t /\ a.s < b.s
    \/ a.t = b.t /\ a.s = b.s /\ a.us < b.us

\* an ISO string written in UTC, for the instant of the aware datetime dt
UtcStringOf(str, dt) ==
    /\ str.type = "str"
    /\ str.suffix = "Z"
    /\ str.t = dt.t - dt.off /\ str.s = dt.s /\ str.us = dt.us

C3_EndIsStartPlusDuration ==
    (/\ op = "natural_language_datetime_parser"
     /\ ~IsNone(locals.produced)
     /\ (Falsy(args.duration) \/ GrammarMinutes(args.duration[1]) > 0)) =>
        /\ outcome.kind = "return"
        /\ outcome.value.end_time.type = outcome.value.start_time.type
        /\ outcome.value.end_time =
              [outcome.value.start_time EXCEPT
                  !.t = @ + (IF Falsy(args.duration) THEN 60
                             ELSE GrammarMinutes(args.duration[1]))]

WeekdayNames ==
    <<"monday", "tuesday", "wednesday", "thursday", "friday", "saturday", "sunday">>

\* the number of the weekday a word names, Monday 0
WeekdayNumber(w) == (CHOOSE i \in 1..7 : WeekdayNames[i] = Lower(w)) - 1

\* the "next <weekday>" step got as far as the date
NextWeekdayReached ==
    op = "natural_language_datetime_parser" /\ ~IsNone(locals.fallback)

\* C4: in the "next <weekday>" step the days ahead are (target - current) mod 7,
\* and 7 when that is 0, so between 1 and 7, and the date so many days after
\* today is the first day after today that falls on the target weekday.
C4_NextWeekdayStrictlyAfterToday ==
    NextWeekdayReached =>
        LET fb == locals.fallback[1]
            target == WeekdayNumber(args.text[2])
            today == fb.current_date.t \div MinutesPerDay
            then == fb.target_date.t \div MinutesPerDay
        IN  /\ fb.days_ahead \in 1..7
            /\ fb.days_ahead = (IF (target - today) % 7 # 0 THEN (target - today) % 7 ELSE 7)
            /\ then = today + fb.days_ahead
            /\ then % 7 = target
            /\ \A day \in (today + 1)..(then - 1) : day % 7 # target

\* C4's case: "next <weekday>" asked on that very weekday
C4_Witness ==
    /\ NextWeekdayReached
    /\ weekday(locals.fallback[1].current_date) = WeekdayNumber(args.text[2])
    /\ locals.fallback[1].days_ahead = 7

\* the time of day C5 states for a time part and a period, in minutes
StatedTimeOfDay(time_part, period) ==
    IF ~IsNone(time_part)
    THEN parse_time_part(time_part[1])[1].hour * 60 + parse_time_part(time_part[1])[1].minute
    ELSE IF IsNone(period) THEN 9 * 60
    ELSE CASE Lower(period[1]) = "morning" -> 9 * 60
           [] Lower(period[1]) = "afternoon" -> 13 * 60
           [] Lower(period[1]) = "evening" -> 18 * 60

\* C5: the "next <weekday>" step yields a datetime on the target date, at the
\* explicit time when one is given, else at 09:00, 13:00 or 18:00 for morning,
\* afternoon or evening, else at 09:00, with second and microsecond zero.
C5_NextWeekdayTimeOfDay ==
    (/\ NextWeekdayReached
     /\ (IsNone(locals.fallback[1].time_part)
         \/ ~IsNone(parse_time_part(locals.fallback[1].time_part[1])))) =>
        LET fb == locals.fallback[1]
        IN  /\ ~IsNone(locals.produced)
            /\ locals.produced[1].t \div MinutesPerDay = fb.target_date.t \div MinutesPerDay
            /\ locals.produced[1].t % MinutesPerDay = StatedTimeOfDay(fb.time_part, fb.period)
            /\ locals.produced[1].s = 0
            /\ locals.produced[1].us = 0

\* C6: when the general parse and the "next <weekday>" step have both produced
\* no datetime, the fuzzy parse is attempted, and the call fails only when the
\* fuzzy parse fails too, with the error that carries the original text.
\* (Stated for calls without a duration, where nothing after the strategies
\* can fail.)
C6_FuzzyParseIsLastResort ==
    (/\ op = "natural_language_datetime_parser"
     /\ Falsy(args.duration)
     /\ \/ locals.reached = "fuzzy"
        \/ locals.reached = "next" /\ IsNone(locals.produced)) =>
        /\ locals.fuzzy_attempted
        /\ outcome.kind = "raise" =>
              /\ IsNone(locals.produced)
              /\ outcome.exc = "ValueError"
              /\ outcome.arg = args.text

\* the count part of a rule, for the counts the texts can give
CountSuffixes == {""} \cup {";COUNT=" \o ToString(k) : k \in 0..(52 * (MaxCount + 1))}

\* the frequency C7 states for a token (the by-day of Tuesday in either letter case)
StatedFrequencies(token) ==
    CASE token \in {"daily", "weekly", "monthly", "yearly"} ->
            {CHOOSE f \in {"DAILY", "WEEKLY", "MONTHLY", "YEARLY"} :
                \/ token = "daily" /\ f = "DAILY"
                \/ token = "weekly" /\ f = "WEEKLY"
                \/ token = "monthly" /\ f = "MONTHLY"
                \/ token = "yearly" /\ f = "YEARLY"}
      [] token = "monday" -> {"WEEKLY;BYDAY=MO"}
      [] token = "tuesday" -> {"WEEKLY;BYDAY=TU", "WEEKLY;BYDAY=Tu"}
      [] token = "wednesday" -> {"WEEKLY;BYDAY=WE"}
      [] token = "thursday" -> {"WEEKLY;BYDAY=TH"}
      [] token = "friday" -> {"WEEKLY;BYDAY=FR"}
      [] token = "saturday" -> {"WEEKLY;BYDAY=SA"}
      [] token = "sunday" -> {"WEEKLY;BYDAY=SU"}
      [] OTHER -> {"WEEKLY"}

StartsWithEvery(text) == Len(text) >= 2 /\ Lower(text[1]) = "every"

\* C7: for "every <token>" the rule's frequency is DAILY, WEEKLY, MONTHLY or
\* YEARLY for those literals, weekly with the by-day of the weekday for the
\* seven weekday names, and plain weekly for any other token; a text that does
\* not start with "every <token>" raises the parse error.
C7_RecurrenceFrequency ==
    op = "parsed_recurrence" =>
        IF StartsWithEvery(args.text)
        THEN /\ outcome.kind = "return"
             /\ \E f \in StatedFrequencies(Lower(args.text[2])), c \in CountSuffixes :
                    outcome.value.str = "RRULE:FREQ=" \o f \o c
        ELSE outcome.kind = "raise" /\ outcome.exc = "ValueError"

\* every frequency part a rule can have
FrequencyParts ==
    {"DAILY", "WEEKLY", "MONTHLY", "YEARLY"} \cup
    {"WEEKLY;BYDAY=" \o d : d \in {"MO", "TU", "Tu", "WE", "TH", "FR", "SA", "SU"}}

\* the count part C8 states for a text
StatedCount(text) ==
    IF Len(text) >= 5 /\ Lower(text[3]) = "for" /\ text[4] \in Numerals
    THEN CASE Lower(text[5]) \in {"week", "weeks"} -> ";COUNT=" \o ToString(Int_(text[4]))
           [] Lower(text[5]) \in {"month", "months"} -> ";COUNT=" \o ToString(Int_(text[4]) * 4)
           [] Lower(text[5]) \in {"year", "years"} -> ";COUNT=" \o ToString(Int_(text[4]) * 52)
           [] OTHER -> ""
    ELSE ""

\* C8: the rule has a count exactly when the text has a "for <count>
\* <week|month|year>[s]" clause, the count being <count>, <count>*4 or
\* <count>*52; "every monday" gives weekly on Monday without a count, "every
\* monday for 5 weeks" the same with count 5, "every day for 2 months" a daily
\* rule with count 8.
C8_RecurrenceCount ==
    (op = "parsed_recurrence" /\ StartsWithEvery(args.text)) =>
        /\ outcome.kind = "return"
        /\ \E f \in FrequencyParts : outcome.value.str = "RRULE:FREQ=" \o f \o StatedCount(args.text)
        /\ args.text = <<"every", "monday">> => outcome.value.str = "RRULE:FREQ=WEEKLY;BYDAY=MO"
        /\ args.text = <<"every", "monday", "for", "5", "weeks">> =>
              outcome.value.str = "RRULE:FREQ=WEEKLY;BYDAY=MO;COUNT=5"
        /\ args.text = <<"every", "day", "for", "2", "months">> =>
              outcome.value.str = "RRULE:FREQ=DAILY;COUNT=8"

\* the part of C8 about the count alone, which the code keeps
C8_CountAlone ==
    (op = "parsed_recurrence" /\ StartsWithEvery(args.text)) =>
        /\ outcome.kind = "return"
        /\ \E f \in FrequencyParts : outcome.value.str = "RRULE:FREQ=" \o f \o StatedCount(args.text)

\* slot [start, start + duration) and the busy interval are disjoint, half-open
Disjoint(start, duration_minutes, busy) ==
    \/ Instant(start) + duration_minutes <= Instant(busy[1])
    \/ Instant(start) >= Instant(busy[2])

BusyOf(busy_slots) == {busy_slots[i] : i \in 1..Len(busy_slots)}

\* C9: for every list of busy intervals, duration and day the slot search
\* gives its answer, and each slot in it is disjoint from every busy interval
\* under the half-open test, the slot's end being its start plus the duration.
C9_SlotsAvoidBusy ==
    op = "find_free_slots" =>
        /\ outcome.kind = "return"
        /\ \A i \in 1..Len(outcome.value.slots) : \A busy \in BusyOf(args.busy_slots) :
              /\ outcome.value.slots[i].end =
                    PlusMinutes(outcome.value.slots[i].start, args.duration_minutes)
              /\ Disjoint(outcome.value.slots[i].start, args.duration_minutes, busy)

\* the candidate starts of the day: every 30 minutes from day_start while the
\* slot ends by day_end, in order
CandidateSteps(a) ==
    {k \in 0..47 : 30 * k + a.duration_minutes <= Instant(a.day_end) - Instant(a.day_start)}

Qualifies(a, k) ==
    LET start == PlusMinutes(a.day_start, 30 * k)
    IN  /\ \A busy \in BusyOf(a.busy_slots) : Disjoint(start, a.duration_minutes, busy)
        /\ IsNone(a.time_frame) \/ in_time_frame(a.time_frame, start)

QualifyingSteps(a) == {k \in CandidateSteps(a) : Qualifies(a, k)}

\* the j-th smallest member of S
RECURSIVE Nth(_, _)
Nth(S, j) ==
    LET least == CHOOSE x \in S : \A y \in S : x <= y
    IN  IF j = 1 THEN least ELSE Nth(S \ {least}, j - 1)

Min(a, b) == IF a <= b THEN a ELSE b

\* C10: the search returns the chronologically first min(max_suggestions, k)
\* of the k candidates of the day that are free and inside the window, and the
\* "No available slots" message if and only if k = 0.  (Stated for a duration
\* that fits into the day and a day without busy intervals, where the overlap
\* test of C9 has nothing to decide.)
C10_FirstQualifyingSlots ==
    (op = "find_free_slots" /\ CandidateSteps(args) # {} /\ args.busy_slots = <<>>) =>
        LET k == Cardinality(QualifyingSteps(args))
            n == Min(args.max_suggestions, k)
        IN  /\ outcome.kind = "return"
            /\ outcome.value.message <=> k = 0
            /\ k > 0 =>
                  /\ Len(outcome.value.slots) = n
                  /\ \A j \in 1..n :
                        outcome.value.slots[j].start =
                            PlusMinutes(args.day_start, 30 * Nth(QualifyingSteps(args), j))

\* the call asks for the window "morning": the tool is given the word, the slot
\* search the window 09:00-12:00 that lines 124-131 make of it
MorningAsked ==
    \/ /\ op = "meeting_time_suggestions"
       /\ ~IsNone(args.prefered_time)
       /\ Len(args.prefered_time[1]) = 1
       /\ Lower(args.prefered_time[1][1]) = "morning"
    \/ /\ op = "find_free_slots"
       /\ args.time_frame = Some(<<9 * 60, 12 * 60>>)

\* wall-clock minutes since midnight, in the datetime's own zone
TimeOfDay(dt) == dt.t % MinutesPerDay

Provided(call, field) == call[field].passed /\ ~IsNone(call[field].value)

\* C12: the body update_event sends to the patch call has a field exactly when
\* the caller provided it, each field carries the value the caller gave for
\* that same field, and a field the caller omitted is absent.
C12_UpdateBodyIsWhatCallerGave ==
    (op = "update_event" /\ locals.reached = "patch") =>
        /\ \A field \in UpdateFields : field \in DOMAIN locals.body <=> Provided(args, field)
        /\ \A field \in DOMAIN locals.body : locals.body[field] = args[field].value

\* an ISO-8601 string in UTC that ends in the literal Z
IsUtcZ(v) == v.type = "str" /\ v.suffix = "Z"

\* C13: every time value handed to the calendar service, or returned for that
\* purpose, is an ISO-8601 UTC string ending in Z: the start and end returned
\* by natural_language_datetime_parser, the minTime and maxTime of the
\* free/busy query of meeting_time_suggestions, and the timeMin list_events
\* passes to search_events.
C13_TimesAreUtcZ ==
    /\ (op = "natural_language_datetime_parser" /\ outcome.kind = "return") =>
            IsUtcZ(outcome.value.start_time) /\ IsUtcZ(outcome.value.end_time)
    /\ (op = "meeting_time_suggestions" /\ ~IsNone(locals.body)) =>
            IsUtcZ(locals.body[1].minTime) /\ IsUtcZ(locals.body[1].maxTime)
    /\ op = "list_events" =>
            "timeMin" \in DOMAIN locals.params /\ IsUtcZ(locals.params["timeMin"])

\* the part of C13 about natural_language_datetime_parser, which the code keeps
C13_ParserTimesAreUtcZ ==
    (op = "natural_language_datetime_parser" /\ outcome.kind = "return") =>
        IsUtcZ(outcome.value.start_time) /\ IsUtcZ(outcome.value.end_time)

\* the free/busy query of meeting_time_suggestions is never sent
C13_FreeBusyNeverSent ==
    op = "meeting_time_suggestions" => IsNone(locals.body)

====
